---- MODULE Spec2Model ----
(***************************************************************************)
(* tower-rusoto: the adapter between rusoto's DispatchSignedRequest and a  *)
(* tower HttpService (src/lib.rs).                                         *)
(*                                                                         *)
(* One exchange is: dispatch (request translation and the single call of   *)
(* the transport), the transport's pulls of the outbound RusotoBody, the   *)
(* resolution of the dispatch future (response translation), and the       *)
(* consumer's polls of the inbound BodyStream.  Every variable is a        *)
(* function of the exchange id, so that several exchanges issued through   *)
(* one HttpClient can be put side by side.                                 *)
(*                                                                         *)
(* Text is modelled as sequences: header names and values are sequences of *)
(* bytes (ASCII codes), URI parts are sequences of one-character strings.  *)
(***************************************************************************)
EXTENDS Integers, Sequences, FiniteSets, TLC

VARIABLES
    phase,   \* "idle" | "pending" | "resolved" | "failed" | "panicked"
    din,     \* the arguments dispatch was called with
    panic,   \* the panic site that ended dispatch or the future, or "none"
    treq,    \* the Transport Request handed to client.call
    body,    \* RusotoBody.inner of the request's body
    calls,   \* number of client.call invocations
    pulls,   \* log of RusotoBody::poll_buf calls: source outcome and result
    tres,    \* what the transport's future completed with
    result,  \* what the dispatch future resolved to
    polls,   \* log of BodyStream::poll calls: body outcome and result
    trailers,  \* log of RusotoBody::poll_trailers calls
    bodyPulls, \* number of poll_buf calls made on the response body
    held,    \* the chunks the consumer holds, in the order they were yielded
    bufs     \* the response body's buffers those chunks came from, as they are now

vars == <<phase, din, panic, treq, body, calls, pulls, tres, result, polls,
          trailers, bodyPulls, held, bufs>>

(***************************************************************************)
(* Bounds of the model.                                                    *)
(***************************************************************************)
MaxHeaderValues == 3   \* header values in one descriptor, over all names
MaxBufLen == 2         \* bytes in a Buffered payload
MaxChunkLen == 1       \* bytes in a chunk of a Streaming payload
MaxPulls == 3          \* poll_buf calls on one RusotoBody
MaxPolls == 3          \* poll calls on one BodyStream
MaxTrailerPolls == 2   \* poll_trailers calls on one RusotoBody
MaxSteps == 2          \* calls of each kind where both bodies are driven

(***************************************************************************)
(* Sequence helpers.                                                       *)
(***************************************************************************)
RECURSIVE SeqsUpTo(_, _)
SeqsUpTo(S, n) ==
    IF n = 0 THEN {<<>>}
    ELSE LET shorter == SeqsUpTo(S, n - 1)
         IN shorter \cup {Append(s, x) : s \in {t \in shorter : Len(t) = n - 1}, x \in S}

RECURSIVE Concat(_)
Concat(ss) == IF ss = <<>> THEN <<>> ELSE Head(ss) \o Concat(Tail(ss))

\* Byte-wise lexicographic order of two strings (the order of String's Ord).
RECURSIVE LexLess(_, _)
LexLess(a, b) ==
    IF b = <<>> THEN FALSE
    ELSE IF a = <<>> THEN TRUE
    ELSE IF Head(a) # Head(b) THEN Head(a) < Head(b)
    ELSE LexLess(Tail(a), Tail(b))

(***************************************************************************)
(* http::header: names, values and the header map.                         *)
(***************************************************************************)
Ok(v) == [ok |-> TRUE, val |-> v, panic |-> "none"]
Panic(site) == [ok |-> FALSE, val |-> <<>>, panic |-> site]

IsUpper(b) == b >= 65 /\ b <= 90
LowerByte(b) == IF IsUpper(b) THEN b + 32 ELSE b
LowerName(s) == [i \in 1..Len(s) |-> LowerByte(s[i])]

\* The token characters of a header name: letters, digits, !#$%&'*+-.^_`|~
IsTokenByte(b) ==
    \/ b >= 48 /\ b <= 57
    \/ b >= 65 /\ b <= 90
    \/ b >= 97 /\ b <= 122
    \/ b \in {33, 35, 36, 37, 38, 39, 42, 43, 45, 46, 94, 95, 96, 124, 126}

\* h.0.parse::<HeaderName>(): a non-empty token, normalised to lower case.
ParseHeaderName(s) ==
    IF s # <<>> /\ \A i \in 1..Len(s) : IsTokenByte(s[i])
    THEN Ok(LowerName(s))
    ELSE Panic("unimplemented:header_name")

\* HeaderValue::from_bytes: every byte is a tab, or >= 32 and not DEL.
HeaderValueFromBytes(v) ==
    IF \A i \in 1..Len(v) : v[i] = 9 \/ (v[i] >= 32 /\ v[i] # 127)
    THEN Ok(v)
    ELSE Panic("unimplemented:header_value")

\* A conversion that takes every header value as text.
ToStrLossy(v) == Ok(v)

\* HeaderValue::to_str: every byte is a tab or visible ASCII.
ToStr(v) ==
    IF \A i \in 1..Len(v) : v[i] = 9 \/ (v[i] >= 32 /\ v[i] < 127)
    THEN Ok(v)
    ELSE Panic("unwrap:header_to_str")

\* A HeaderMap: its names in the order of their first insertion, each with
\* its values in the order they were appended.
HeaderMapNew == <<>>

\* HeaderMap::insert, which replaces the values already under the name.
HeaderMapInsert(m, name, value) ==
    IF \E i \in 1..Len(m) : m[i].name = name
    THEN LET i == CHOOSE j \in 1..Len(m) : m[j].name = name
         IN [m EXCEPT ![i].values = <<value>>]
    ELSE Append(m, [name |-> name, values |-> <<value>>])

HeaderMapAppend(m, name, value) ==
    IF \E i \in 1..Len(m) : m[i].name = name
    THEN LET i == CHOOSE j \in 1..Len(m) : m[j].name = name
         IN [m EXCEPT ![i].values = Append(@, value)]
    ELSE Append(m, [name |-> name, values |-> <<value>>])

\* An iteration that visits every name once, with its first value.
HeaderMapIterNames(m) ==
    Concat([i \in 1..Len(m) |-> <<<<m[i].name, m[i].values[1]>>>>])

\* HeaderMap::iter: one (name, value) item per value, names in map order.
HeaderMapIter(m) ==
    Concat([i \in 1..Len(m) |->
              [j \in 1..Len(m[i].values) |-> <<m[i].name, m[i].values[j]>>]])

\* The inner loop over one name's values (lines 63-69).
RECURSIVE AppendValues(_, _, _)
AppendValues(m, name, vs) ==
    IF vs = <<>> THEN Ok(m)
    ELSE LET hv == HeaderValueFromBytes(Head(vs))
         IN IF ~hv.ok THEN hv
            ELSE AppendValues(HeaderMapAppend(m, name, hv.val), name, Tail(vs))

\* The loop over request.headers() (lines 57-70), a BTreeMap iterated in
\* the order of its keys.
RECURSIVE TranslateHeaders(_, _)
TranslateHeaders(m, hs) ==
    IF hs = <<>> THEN Ok(m)
    ELSE LET hn == ParseHeaderName(Head(hs).name)
         IN IF ~hn.ok THEN hn
            ELSE LET r == AppendValues(m, hn.val, Head(hs).values)
                 IN IF ~r.ok THEN r ELSE TranslateHeaders(r.val, Tail(hs))

(***************************************************************************)
(* Method mapping and URI assembly.                                        *)
(***************************************************************************)
\* A match that ignores the case of the token.
MethodMatchAnyCase(token) ==
    CASE token \in {"POST", "Post", "post"} -> Ok("Method::POST")
      [] token \in {"PUT", "Put", "put"} -> Ok("Method::PUT")
      [] token \in {"DELETE", "Delete", "delete"} -> Ok("Method::DELETE")
      [] token \in {"GET", "Get", "get"} -> Ok("Method::GET")
      [] token \in {"HEAD", "Head", "head"} -> Ok("Method::HEAD")
      [] OTHER -> Panic("unimplemented:method")

MethodMatch(token) ==
    CASE token = "POST" -> Ok("Method::POST")
      [] token = "PUT" -> Ok("Method::PUT")
      [] token = "DELETE" -> Ok("Method::DELETE")
      [] token = "GET" -> Ok("Method::GET")
      [] token = "HEAD" -> Ok("Method::HEAD")
      [] OTHER -> Panic("unimplemented:method")

\* An assembly that appends "?" and the query string unconditionally.
FormatUriAlwaysQuery(request) ==
    request.scheme \o <<":", "/", "/">> \o request.hostname \o request.path
        \o <<"?">> \o request.query

\* format!("{}://{}{}", scheme, hostname, canonical_path), then "?query"
\* when the canonical query string is not empty (lines 74-83).
FormatUri(request) ==
    LET uri == request.scheme \o <<":", "/", "/">> \o request.hostname \o request.path
    IN IF request.query # <<>> THEN uri \o <<"?">> \o request.query ELSE uri

\* Request::builder().uri(uri): the string must parse as a Uri; a space is
\* no URI character.
ParseUri(uri) ==
    IF uri # <<>> /\ \A i \in 1..Len(uri) : uri[i] # " "
    THEN Ok(uri)
    ELSE Panic("unwrap:request_build")

\* RusotoBody::from(request.payload) (lines 149-153).
RusotoBodyFrom(payload) == [inner |-> payload]

\* Request::builder().method(..).uri(..).body(..).unwrap() (lines 85-90).
BuildRequest(method, uri, payload) ==
    LET u == ParseUri(uri)
    IN IF ~u.ok THEN u
       ELSE Ok([method |-> method, uri |-> u.val, headers |-> HeaderMapNew,
                body |-> RusotoBodyFrom(payload)])

(***************************************************************************)
(* HttpClient::dispatch (lines 45-118).                                    *)
(***************************************************************************)
\* An assertion that lets a zero duration pass.
AssertTimeoutNonZero(timeout) ==
    IF timeout.some /\ timeout.secs # 0 THEN Panic("assert:timeout") ELSE Ok(<<>>)

\* assert!(timeout.is_none(), ..) (line 46).
AssertTimeout(timeout) ==
    IF timeout.some THEN Panic("assert:timeout") ELSE Ok(<<>>)

\* The translation of dispatch, up to the request handed to client.call:
\* the first failing step panics and nothing after it runs.
DispatchResult(request, timeout) ==
    LET checked == AssertTimeout(timeout)
    IN IF ~checked.ok THEN checked
       ELSE LET method == MethodMatch(request.method)
            IN IF ~method.ok THEN method
               ELSE LET headers == TranslateHeaders(HeaderMapNew, request.headers)
                    IN IF ~headers.ok THEN headers
                       ELSE LET built == BuildRequest(method.val, FormatUri(request),
                                                      request.payload)
                            IN IF ~built.ok THEN built
                               ELSE Ok([built.val EXCEPT !.headers = headers.val])

\* A dispatch that calls the transport first and translates afterwards.
DispatchInvokesFirst(e, request, timeout) ==
    /\ phase[e] = "idle"
    /\ din' = [din EXCEPT ![e] = <<[request |-> request, timeout |-> timeout]>>]
    /\ calls' = [calls EXCEPT ![e] = @ + 1]
    /\ LET r == DispatchResult(request, timeout)
       IN IF r.ok
          THEN /\ phase' = [phase EXCEPT ![e] = "pending"]
               /\ treq' = [treq EXCEPT ![e] = <<[method |-> r.val.method,
                                                 uri |-> r.val.uri,
                                                 headers |-> r.val.headers]>>]
               /\ body' = [body EXCEPT ![e] = r.val.body.inner]
               /\ UNCHANGED panic
          ELSE /\ phase' = [phase EXCEPT ![e] = "panicked"]
               /\ panic' = [panic EXCEPT ![e] = r.panic]
               /\ UNCHANGED <<treq, body>>
    /\ UNCHANGED <<pulls, tres, result, polls, trailers, bodyPulls, held, bufs>>

\* dispatch(request, timeout) of exchange e: translation, then the one call
\* of the cloned transport; the returned future is pending.
Dispatch(e, request, timeout) ==
    /\ phase[e] = "idle"
    /\ din' = [din EXCEPT ![e] = <<[request |-> request, timeout |-> timeout]>>]
    /\ LET r == DispatchResult(request, timeout)
       IN IF r.ok
          THEN /\ phase' = [phase EXCEPT ![e] = "pending"]
               /\ treq' = [treq EXCEPT ![e] = <<[method |-> r.val.method,
                                                 uri |-> r.val.uri,
                                                 headers |-> r.val.headers]>>]
               /\ body' = [body EXCEPT ![e] = r.val.body.inner]
               /\ calls' = [calls EXCEPT ![e] = @ + 1]
               /\ UNCHANGED panic
          ELSE /\ phase' = [phase EXCEPT ![e] = "panicked"]
               /\ panic' = [panic EXCEPT ![e] = r.panic]
               /\ UNCHANGED <<treq, body, calls>>
    /\ UNCHANGED <<pulls, tres, result, polls, trailers, bodyPulls, held, bufs>>

(***************************************************************************)
(* The dispatch future (lines 99-115).                                     *)
(***************************************************************************)
\* The closure of Headers::new (lines 102-105): v.to_str().unwrap() and
\* h.as_str() for every item of response.headers().iter().
RECURSIVE DecodeHeaders(_)
DecodeHeaders(items) ==
    IF items = <<>> THEN Ok(<<>>)
    ELSE LET s == ToStr(Head(items)[2])
         IN IF ~s.ok THEN s
            ELSE LET rest == DecodeHeaders(Tail(items))
                 IN IF ~rest.ok THEN rest
                    ELSE Ok(<<<<Head(items)[1], s.val>>>> \o rest.val)

\* The and_then closure: status, headers and the wrapped body.
TranslateResponse(response) ==
    LET hs == DecodeHeaders(HeaderMapIter(response.headers))
    IN IF ~hs.ok THEN hs
       ELSE Ok([tag |-> "HttpResponse", status |-> response.status,
                headers |-> hs.val, message |-> <<>>])

\* A wrapping that pulls the first buffer of the body ahead of the consumer.
WrapBodyReadAhead(response) == [body |-> "BodyStream", pulled |-> 1]

\* response.into_body().into_buf_stream() and BodyStream { body } (lines
\* 106-107): the body is wrapped as it is, nothing is pulled from it.
WrapBody(response) == [body |-> "BodyStream", pulled |-> 0]

\* and_then(..).map_err(..) applied to what the transport's future gave.
FutureResult(outcome) ==
    IF outcome.tag = "Err"
    THEN Ok([tag |-> "HttpDispatchError", status |-> 0, headers |-> <<>>,
             message |-> <<"DispatchError: ", outcome.msg>>])
    ELSE TranslateResponse(outcome)

\* A future that answers a failure of the transport by invoking it again.
ResolveRetries(e, outcome) ==
    /\ phase[e] = "pending"
    /\ tres' = [tres EXCEPT ![e] = <<outcome>>]
    /\ IF outcome.tag = "Err"
       THEN /\ calls' = [calls EXCEPT ![e] = @ + 1]
            /\ UNCHANGED <<phase, result>>
       ELSE /\ phase' = [phase EXCEPT ![e] = "resolved"]
            /\ result' = [result EXCEPT ![e] = <<FutureResult(outcome).val>>]
            /\ UNCHANGED calls
    /\ UNCHANGED <<din, panic, treq, body, pulls, polls, trailers, bodyPulls, held, bufs>>

\* The dispatch future of exchange e is polled and the transport's future
\* has completed with outcome.
Resolve(e, outcome) ==
    /\ phase[e] = "pending"
    /\ tres' = [tres EXCEPT ![e] = <<outcome>>]
    /\ LET r == FutureResult(outcome)
       IN IF r.ok
          THEN /\ phase' = [phase EXCEPT ![e] =
                               IF r.val.tag = "HttpResponse" THEN "resolved" ELSE "failed"]
               /\ result' = [result EXCEPT ![e] = <<r.val>>]
               /\ bodyPulls' = [bodyPulls EXCEPT ![e] =
                                   IF r.val.tag = "HttpResponse"
                                   THEN @ + WrapBody(outcome).pulled ELSE @]
               /\ UNCHANGED panic
          ELSE /\ phase' = [phase EXCEPT ![e] = "panicked"]
               /\ panic' = [panic EXCEPT ![e] = r.panic]
               /\ UNCHANGED <<result, bodyPulls>>
    /\ UNCHANGED <<din, treq, body, calls, pulls, polls, trailers, held, bufs>>

(***************************************************************************)
(* RusotoBody: the outbound body (lines 121-153).                          *)
(***************************************************************************)
NoError == [kind |-> "none", msg |-> "none"]
NotReady == [tag |-> "NotReady", item |-> <<>>, err |-> NoError]
End == [tag |-> "End", item |-> <<>>, err |-> NoError]
Ready(item) == [tag |-> "Ready", item |-> item, err |-> NoError]
Err(e) == [tag |-> "Err", item |-> <<>>, err |-> e]
\* The log entry of a pull that polls no source (Absent, Buffered).
NotPolled == [tag |-> "NotPolled", item |-> <<>>, err |-> NoError]

\* A split that returns the tail and leaves the vector as it was.
SplitOffClone(v, at) == [kept |-> v, tail |-> SubSeq(v, at + 1, Len(v))]

\* Vec::split_off(at): the vector keeps [0, at), the tail [at, len) is
\* returned.
SplitOff(v, at) == [kept |-> SubSeq(v, 1, at), tail |-> SubSeq(v, at + 1, Len(v))]

\* io::Cursor::new(data): a cursor at position 0; as a Buf it holds the
\* bytes from its position on.
CursorNew(data) == [data |-> data, pos |-> 0]
Remaining(cursor) == SubSeq(cursor.data, cursor.pos + 1, Len(cursor.data))

\* A Stream arm that answers end-of-data while the source is not ready.
StreamArmEndWhenNotReady(src) ==
    CASE src.tag = "Err" -> Err(src.err)
      [] src.tag = "Ready" -> Ready(CursorNew(src.item))
      [] OTHER -> End

\* A Stream arm that turns an error of the source into end-of-data.
StreamArmSwallowError(src) ==
    CASE src.tag = "Err" -> End
      [] src.tag = "Ready" -> Ready(CursorNew(src.item))
      [] src.tag = "End" -> End
      [] OTHER -> NotReady

\* The Stream arm (lines 135-139): stream.poll()? and the match on it.
StreamArm(src) ==
    CASE src.tag = "Err" -> Err(src.err)
      [] src.tag = "Ready" -> Ready(CursorNew(src.item))
      [] src.tag = "End" -> End
      [] OTHER -> NotReady

\* A poll_buf whose Buffer arm hands out the block without looking at it.
PollBufResultNoEmptyCheck(inner, src) ==
    CASE inner.kind = "Buffer" ->
           LET s == SplitOff(inner.buf, 0)
           IN [out |-> Ready(CursorNew(s.tail)),
               inner |-> [inner EXCEPT !.buf = s.kept]]
      [] inner.kind = "Stream" -> [out |-> StreamArm(src), inner |-> inner]
      [] OTHER -> [out |-> End, inner |-> inner]

\* poll_buf on inner, src being what the stream's poll gave (Stream only):
\* the result and the inner payload afterwards.
PollBufResult(inner, src) ==
    CASE inner.kind = "Buffer" ->
           IF inner.buf # <<>>
           THEN LET s == SplitOff(inner.buf, 0)
                IN [out |-> Ready(CursorNew(s.tail)),
                    inner |-> [inner EXCEPT !.buf = s.kept]]
           ELSE [out |-> End, inner |-> inner]
      [] inner.kind = "Stream" -> [out |-> StreamArm(src), inner |-> inner]
      [] OTHER -> [out |-> End, inner |-> inner]

\* A poll_trailers that waits for the data: not ready while a block is left,
\* and the block is dropped.
PollTrailersDrain(inner) ==
    IF inner.kind = "Buffer" /\ inner.buf # <<>>
    THEN [out |-> NotReady, inner |-> [inner EXCEPT !.buf = <<>>]]
    ELSE [out |-> End, inner |-> inner]

\* poll_trailers on inner (lines 144-146): Ok(Async::Ready(None)), whatever
\* the payload; the result and the inner payload afterwards.
PollTrailersResult(inner) == [out |-> End, inner |-> inner]

(***************************************************************************)
(* BodyStream: the inbound body (lines 155-173).                           *)
(***************************************************************************)
\* A copy of the first segment of the buffer only.
CollectFirstSegment(buf) == IF buf = <<>> THEN <<>> ELSE Head(buf)

\* buf.collect::<Vec<u8>>(): the bytes of every segment of the buffer, in
\* order, copied into one vector.
Collect(buf) == Concat(buf)

\* A chunk that is a view of the buffer it came from.
CopyOutView(buf) == [bytes |-> Collect(buf), shared |-> TRUE]

\* let bytes = buf.collect::<Vec<u8>>() (line 166): the chunk handed to the
\* consumer is a vector of its own, sharing nothing with the buffer.
CopyOut(buf) == [bytes |-> Collect(buf), shared |-> FALSE]

\* e.into(): the body's error as an io::Error with the same message.
IntoIoError(e) == [kind |-> "io", msg |-> e.msg]

\* A poll that answers not-ready when the body fails.
BodyStreamPollSkipError(src) ==
    CASE src.tag = "Err" -> NotReady
      [] src.tag = "Ready" -> Ready(Collect(src.item))
      [] src.tag = "End" -> End
      [] OTHER -> NotReady

\* poll (lines 163-172), src being what self.body.poll_buf() gave.
BodyStreamPoll(src) ==
    CASE src.tag = "Err" -> Err(IntoIoError(src.err))
      [] src.tag = "Ready" -> Ready(Collect(src.item))
      [] src.tag = "End" -> End
      [] OTHER -> NotReady

(***************************************************************************)
(* The inputs: descriptors, timeouts, and what the external parties (the   *)
(* payload's stream, the transport, the response body) may answer.         *)
(***************************************************************************)
\* Option<Duration>
Timeouts == {[some |-> FALSE, secs |-> 0], [some |-> TRUE, secs |-> 0],
             [some |-> TRUE, secs |-> 30]}

Methods == {"GET", "HEAD", "POST", "PUT", "DELETE",
            "get", "Post", "PATCH", "OPTIONS", ""}

Schemes == {<<"h", "t", "t", "p">>, <<"h", "t", "t", "p", "s">>}
Hostnames == {<<"e", "x", "a", "m", "p", "l", "e", ".", "c", "o", "m">>,
              <<"b", "a", "d", " ", "h", "o", "s", "t">>}
Paths == {<<"/">>, <<"/", "a", "/", "b">>}
Queries == {<<>>, <<"x", "=", "1">>}

\* The header names "X-Foo", "x-foo", "x-bar" and "x y" (no token), and the
\* header values "a", "b", a line feed (no header value), the byte E9 (a
\* header value, but neither visible ASCII nor UTF-8) and the bytes C3 A9
\* (the UTF-8 encoding of U+00E9: a header value, but not visible ASCII).
NameXFoo == <<88, 45, 70, 111, 111>>
NameXFooLower == <<120, 45, 102, 111, 111>>
NameXBar == <<120, 45, 98, 97, 114>>
NameBad == <<120, 32, 121>>
ValueA == <<97>>
ValueB == <<98>>
ValueLF == <<10>>
ValueE9 == <<233>>
ValueEAcute == <<195, 169>>

\* The keys of a BTreeMap<String, _> in the order iter() visits them.
RECURSIVE SortedKeys(_)
SortedKeys(S) ==
    IF S = {} THEN <<>>
    ELSE LET least == CHOOSE x \in S : \A y \in S \ {x} : LexLess(x, y)
         IN <<least>> \o SortedKeys(S \ {least})

HeaderNames == SortedKeys({NameXFoo, NameXFooLower, NameXBar, NameBad})
HeaderValues == {ValueA, ValueB, ValueLF, ValueE9}

\* The header multimaps with names from HeaderNames[i..], in key order, and
\* at most t values in all.
RECURSIVE HeaderMultimaps(_, _)
HeaderMultimaps(i, t) ==
    IF i > Len(HeaderNames) THEN {<<>>}
    ELSE HeaderMultimaps(i + 1, t)
         \cup UNION {{<<[name |-> HeaderNames[i], values |-> vs]>> \o rest :
                        rest \in HeaderMultimaps(i + 1, t - Len(vs))} :
                     vs \in SeqsUpTo(HeaderValues, t)}

PayloadBytes == {1, 2}
NoPayload == [kind |-> "None", buf |-> <<>>]
Payloads ==
    {NoPayload, [kind |-> "Stream", buf |-> <<>>]}
    \cup {[kind |-> "Buffer", buf |-> b] : b \in SeqsUpTo(PayloadBytes, MaxBufLen)}

BaseDescriptor ==
    [method |-> "GET", scheme |-> <<"h", "t", "t", "p", "s">>,
     hostname |-> <<"e", "x", "a", "m", "p", "l", "e", ".", "c", "o", "m">>,
     path |-> <<"/", "a", "/", "b">>, query |-> <<>>,
     headers |-> <<>>, payload |-> NoPayload]

\* Descriptors that vary the request line, with and without a bad header.
RequestLineDescriptors ==
    {[BaseDescriptor EXCEPT !.method = m, !.scheme = s, !.hostname = h,
                            !.path = p, !.query = q, !.headers = hs] :
        m \in Methods, s \in Schemes, h \in Hostnames, p \in Paths, q \in Queries,
        hs \in {<<>>, <<[name |-> NameBad, values |-> <<>>]>>}}

\* Descriptors that vary the header multimap, with at most t values.
HeaderDescriptors(t) ==
    {[BaseDescriptor EXCEPT !.headers = hs] : hs \in HeaderMultimaps(1, t)}

\* Descriptors that vary the payload.
PayloadDescriptors == {[BaseDescriptor EXCEPT !.payload = p] : p \in Payloads}

\* What the payload's stream may answer to a poll: anything, at any time.
StreamErrors == {[kind |-> "io", msg |-> "broken pipe"]}
StreamOutcomes ==
    {NotReady, End}
    \cup {Err(x) : x \in StreamErrors}
    \cup {Ready(c) : c \in SeqsUpTo(PayloadBytes, MaxChunkLen)}

SourceOutcomes(inner) == IF inner.kind = "Stream" THEN StreamOutcomes ELSE {NotPolled}

\* Header maps a response may carry, besides the request's own.
ResponseHeaderMaps ==
    {<<>>,
     <<[name |-> NameXFooLower, values |-> <<ValueA, ValueB>>]>>,
     <<[name |-> NameXBar, values |-> <<ValueB>>],
       [name |-> NameXFooLower, values |-> <<ValueA, ValueA>>]>>,
     <<[name |-> NameXFooLower, values |-> <<ValueA, ValueE9>>]>>,
     <<[name |-> NameXBar, values |-> <<ValueEAcute>>]>>}

TransportErrors == {"connection refused", "timed out"}

\* What the transport's future may complete with.
TransportOutcomes(e) ==
    IF treq[e] = <<>> THEN {}
    ELSE {[tag |-> "Err", status |-> 0, headers |-> <<>>, msg |-> m] : m \in TransportErrors}
         \cup {[tag |-> "Ok", status |-> st, headers |-> hm, msg |-> "none"] :
                 st \in {200, 404},
                 hm \in {treq[e][1].headers} \cup ResponseHeaderMaps}

\* The buffers a response body may yield: sequences of byte segments.
ResponseBuffers == {<<>>, <<<<1>>>>, <<<<1>>, <<2>>>>, <<<<2, 1>>, <<1>>>>}
BodyErrors == {[kind |-> "body", msg |-> "reset"], [kind |-> "body", msg |-> "eof"]}

\* What the response body may answer to a poll_buf: anything, at any time.
BodyOutcomes ==
    {NotReady, End}
    \cup {Err(x) : x \in BodyErrors}
    \cup {Ready(b) : b \in ResponseBuffers}

\* A failure and a response without headers.
PlainOutcomes ==
    {[tag |-> "Err", status |-> 0, headers |-> <<>>, msg |-> "connection refused"],
     [tag |-> "Ok", status |-> 200, headers |-> <<>>, msg |-> "none"]}

\* One outcome of each kind, for the payload's stream and the response body.
PlainStreamOutcomes ==
    {NotReady, End, Ready(<<1>>)} \cup {Err(x) : x \in StreamErrors}
PlainBodyOutcomes ==
    {NotReady, End, Ready(<<<<1>>, <<2>>>>), Err([kind |-> "body", msg |-> "reset"])}

\* The inputs of two concurrent exchanges: a Buffered or a Streaming payload,
\* streams that yield or end, response bodies that yield or fail.
PairDescriptors ==
    {[BaseDescriptor EXCEPT !.payload = p] :
        p \in {[kind |-> "Buffer", buf |-> <<1>>], [kind |-> "Stream", buf |-> <<>>]}}
PairStreamOutcomes == {End, Ready(<<1>>)}
PairBodyOutcomes == {Ready(<<<<1>>>>), Err([kind |-> "body", msg |-> "reset"])}

(***************************************************************************)
(* The body actions.                                                       *)
(***************************************************************************)
\* A pull on a payload slot that all the exchanges of a client share.
PollBufSharedBody(e, src) ==
    /\ treq[e] # <<>>
    /\ Len(pulls[e]) < MaxPulls
    /\ LET r == PollBufResult(body[e], src)
       IN /\ body' = [f \in DOMAIN body |-> r.inner]
          /\ pulls' = [pulls EXCEPT ![e] = Append(@, [src |-> src, out |-> r.out])]
    /\ UNCHANGED <<phase, din, panic, treq, calls, tres, result, polls,
                   trailers, bodyPulls, held, bufs>>

\* The transport pulls the request body of exchange e.
PollBuf(e, src) ==
    /\ treq[e] # <<>>
    /\ Len(pulls[e]) < MaxPulls
    /\ LET r == PollBufResult(body[e], src)
       IN /\ body' = [body EXCEPT ![e] = r.inner]
          /\ pulls' = [pulls EXCEPT ![e] = Append(@, [src |-> src, out |-> r.out])]
    /\ UNCHANGED <<phase, din, panic, treq, calls, tres, result, polls,
                   trailers, bodyPulls, held, bufs>>

\* The consumer polls the body stream of the envelope of exchange e.
Poll(e, src) ==
    /\ phase[e] = "resolved"
    /\ Len(polls[e]) < MaxPolls
    /\ polls' = [polls EXCEPT ![e] = Append(@, [src |-> src, out |-> BodyStreamPoll(src)])]
    /\ bodyPulls' = [bodyPulls EXCEPT ![e] = @ + 1]
    /\ IF src.tag = "Ready"
       THEN /\ held' = [held EXCEPT ![e] = Append(@, CopyOut(src.item))]
            /\ bufs' = [bufs EXCEPT ![e] = Append(@, src.item)]
       ELSE UNCHANGED <<held, bufs>>
    /\ UNCHANGED <<phase, din, panic, treq, body, calls, pulls, tres, result, trailers>>

\* The transport asks the request body of exchange e for its trailers.
PollTrailers(e) ==
    /\ treq[e] # <<>>
    /\ Len(trailers[e]) < MaxTrailerPolls
    /\ LET r == PollTrailersResult(body[e])
       IN /\ body' = [body EXCEPT ![e] = r.inner]
          /\ trailers' = [trailers EXCEPT ![e] =
                             Append(@, [before |-> body[e], out |-> r.out,
                                        after |-> r.inner])]
    /\ UNCHANGED <<phase, din, panic, treq, calls, pulls, tres, result, polls,
                   bodyPulls, held, bufs>>

\* The response body of exchange e overwrites, with the segments b, the
\* buffer it handed out on its k-th chunk.
ReuseBuffer(e, k, b) ==
    /\ k \in 1..Len(bufs[e])
    /\ b # bufs[e][k]
    /\ bufs' = [bufs EXCEPT ![e][k] = b]
    /\ UNCHANGED <<phase, din, panic, treq, body, calls, pulls, tres, result,
                   polls, trailers, bodyPulls, held>>

(***************************************************************************)
(* Specifications.                                                         *)
(***************************************************************************)
InitOn(E) ==
    /\ phase = [e \in E |-> "idle"]
    /\ din = [e \in E |-> <<>>]
    /\ panic = [e \in E |-> "none"]
    /\ treq = [e \in E |-> <<>>]
    /\ body = [e \in E |-> NoPayload]
    /\ calls = [e \in E |-> 0]
    /\ pulls = [e \in E |-> <<>>]
    /\ tres = [e \in E |-> <<>>]
    /\ result = [e \in E |-> <<>>]
    /\ polls = [e \in E |-> <<>>]
    /\ trailers = [e \in E |-> <<>>]
    /\ bodyPulls = [e \in E |-> 0]
    /\ held = [e \in E |-> <<>>]
    /\ bufs = [e \in E |-> <<>>]

Init == InitOn({1})

Exchanges == DOMAIN phase

\* dispatch is called, for some exchange, with a descriptor of D.
DispatchOf(D) ==
    \E e \in Exchanges :
        /\ phase[e] = "idle"
        /\ \E d \in D, t \in Timeouts : Dispatch(e, d, t)

\* The dispatch future of some exchange resolves.
ResolveAny ==
    \E e \in Exchanges :
        /\ phase[e] = "pending"
        /\ \E o \in TransportOutcomes(e) : Resolve(e, o)

\* The transport pulls the request body of some exchange.
PollBufAny ==
    \E e \in Exchanges :
        /\ treq[e] # <<>>
        /\ \E src \in SourceOutcomes(body[e]) : PollBuf(e, src)

\* The consumer polls the body stream of some exchange.
PollAny ==
    \E e \in Exchanges :
        /\ phase[e] = "resolved"
        /\ \E src \in BodyOutcomes : Poll(e, src)

\* The transport asks the request body of some exchange for its trailers.
PollTrailersAny ==
    \E e \in Exchanges :
        /\ treq[e] # <<>>
        /\ PollTrailers(e)

\* The response body of some exchange reuses a buffer it handed out.
ReuseAny ==
    \E e \in Exchanges :
        /\ bufs[e] # <<>>
        /\ \E k \in 1..Len(bufs[e]), b \in ResponseBuffers : ReuseBuffer(e, k, b)

\* The dispatch future of some exchange resolves, with an outcome of O.
ResolveOf(O) ==
    \E e \in Exchanges :
        /\ phase[e] = "pending"
        /\ \E o \in O : Resolve(e, o)

\* The transport pulls the request body of some exchange that was pulled
\* less than n times, its stream answering from S.
PollBufWithin(n, S) ==
    \E e \in Exchanges :
        /\ treq[e] # <<>>
        /\ Len(pulls[e]) < n
        /\ \E src \in SourceOutcomes(body[e]) \cap (S \cup {NotPolled}) : PollBuf(e, src)

\* The consumer polls the body stream of some exchange that was polled less
\* than n times, the response body answering from S.
PollWithin(n, S) ==
    \E e \in Exchanges :
        /\ phase[e] = "resolved"
        /\ Len(polls[e]) < n
        /\ \E src \in S : Poll(e, src)

\* Request and response translation: every descriptor, no body traffic.
NextDispatch ==
    \/ DispatchOf(RequestLineDescriptors \cup HeaderDescriptors(MaxHeaderValues))
    \/ ResolveAny

SpecDispatch == Init /\ [][NextDispatch]_vars

\* The outbound body: every payload, pulled by the transport.
NextOutbound == DispatchOf(PayloadDescriptors) \/ PollBufAny \/ PollTrailersAny

SpecOutbound == Init /\ [][NextOutbound]_vars

\* The inbound body: one descriptor, every response, polled by the consumer.
NextInbound == DispatchOf({BaseDescriptor}) \/ ResolveAny \/ PollAny

SpecInbound == Init /\ [][NextInbound]_vars

\* The inbound body whose buffers the response body goes on using.
NextCopy ==
    \/ DispatchOf({BaseDescriptor})
    \/ ResolveOf(PlainOutcomes)
    \/ PollWithin(MaxSteps, BodyOutcomes)
    \/ ReuseAny

SpecCopy == Init /\ [][NextCopy]_vars

\* One exchange with both bodies driven: every payload, a plain response.
NextExchange ==
    \/ DispatchOf(PayloadDescriptors)
    \/ ResolveOf(PlainOutcomes)
    \/ PollBufWithin(MaxSteps, PlainStreamOutcomes)
    \/ PollWithin(MaxSteps, PlainBodyOutcomes)

SpecExchange == Init /\ [][NextExchange]_vars

\* Two exchanges through the same client, in any interleaving.
NextPair ==
    \/ DispatchOf(PairDescriptors)
    \/ ResolveOf(PlainOutcomes)
    \/ PollBufWithin(MaxSteps, PairStreamOutcomes)
    \/ PollWithin(MaxSteps, PairBodyOutcomes)

InitPair == InitOn({1, 2})

SpecPair == InitPair /\ [][NextPair]_vars

(***************************************************************************)
(* Properties of the outbound body (SpecOutbound).                         *)
(***************************************************************************)
Payload(e) == din[e][1].request.payload
Dispatched(e) == din[e] # <<>>
Pulls(e) == 1..Len(pulls[e])

\* C1: a Buffered payload of N > 0 bytes yields on its first pull one
\* non-empty chunk equal to the original bytes, which empties the buffer,
\* and end-of-data on every later pull; it never yields not-ready or an
\* error, so at most one non-empty chunk over its lifetime.
C1_BufferedYieldsOnce ==
    \A e \in Exchanges :
        (Dispatched(e) /\ Payload(e).kind = "Buffer" /\ Payload(e).buf # <<>>) =>
            /\ \A k \in Pulls(e) :
                  IF k = 1
                  THEN /\ pulls[e][k].out.tag = "Ready"
                       /\ Remaining(pulls[e][k].out.item) = Payload(e).buf
                       /\ Remaining(pulls[e][k].out.item) # <<>>
                  ELSE pulls[e][k].out = End
            /\ Len(pulls[e]) >= 1 => body[e].buf = <<>>
            /\ Cardinality({k \in Pulls(e) : pulls[e][k].out.tag = "Ready"}) <= 1

C1_Witness ==
    \E e \in Exchanges :
        /\ Dispatched(e) /\ Payload(e) = [kind |-> "Buffer", buf |-> <<1, 2>>]
        /\ Len(pulls[e]) = 3
        /\ pulls[e][3].out = End

\* C2: for a Streaming payload the k-th pull returns the k-th outcome of
\* the source: not-ready as not-ready, a chunk as a chunk of the same bytes,
\* end as end-of-data; nothing is dropped, duplicated, merged or split.
C2_StreamForwarded ==
    \A e \in Exchanges :
        (Dispatched(e) /\ Payload(e).kind = "Stream") =>
            \A k \in Pulls(e) :
                LET src == pulls[e][k].src
                    out == pulls[e][k].out
                IN /\ src.tag # "NotPolled"
                   /\ src.tag = "NotReady" => out = NotReady
                   /\ src.tag = "End" => out = End
                   /\ src.tag = "Ready" =>
                         /\ out.tag = "Ready"
                         /\ Remaining(out.item) = src.item

C2_Witness ==
    \E e \in Exchanges :
        /\ Dispatched(e) /\ Payload(e).kind = "Stream"
        /\ Len(pulls[e]) = 3
        /\ pulls[e][1].src = NotReady
        /\ pulls[e][2].src = Ready(<<1>>)
        /\ pulls[e][3].src = End

\* C3 as stated: for every payload variant, once a pull has observed the
\* payload exhausted (it yielded end-of-data), every later pull yields
\* end-of-data, whatever the source does afterwards.
C3_NoResurrection ==
    \A e \in Exchanges :
        \A i, j \in Pulls(e) :
            (i < j /\ pulls[e][i].out.tag = "End") => pulls[e][j].out.tag = "End"

\* C3 amended: an Absent or Buffered payload that has yielded end-of-data
\* yields end-of-data on every later pull; for a Streaming payload the
\* adapter keeps no exhausted state, and a pull after the source's end
\* yields end-of-data exactly when the source signals end again on that
\* pull.
C3_NoResurrectionButStream ==
    \A e \in Exchanges :
        \A i, j \in Pulls(e) :
            (i < j /\ pulls[e][i].out.tag = "End") =>
                IF body[e].kind = "Stream"
                THEN pulls[e][j].out.tag = "End" <=> pulls[e][j].src.tag = "End"
                ELSE pulls[e][j].out = End

C3_Witness ==
    \E e \in Exchanges :
        /\ Dispatched(e) /\ Payload(e).kind = "Buffer" /\ Payload(e).buf # <<>>
        /\ Len(pulls[e]) = 3
        /\ pulls[e][2].out = End
        /\ pulls[e][3].out = End

(***************************************************************************)
(* Properties of the inbound body (SpecInbound).                           *)
(***************************************************************************)
Polls(e) == 1..Len(polls[e])
IsReadySrc(p) == p.src.tag = "Ready"
IsReadyOut(p) == p.out.tag = "Ready"

\* C4: BodyStream::poll delivers the chunks in the order the response body
\* produced its buffers, with the same count and bytes, and passes
\* end-of-body and not-ready through: the chunks yielded so far are the
\* bytes of the buffers returned so far, one for one.
C4_InboundOrder ==
    \A e \in Exchanges :
        /\ \A k \in Polls(e) :
              LET src == polls[e][k].src
                  out == polls[e][k].out
              IN /\ src.tag = "NotReady" => out = NotReady
                 /\ src.tag = "End" => out = End
                 /\ src.tag = "Ready" => out = Ready(Concat(src.item))
                 /\ out.tag = "Ready" => src.tag = "Ready"
        /\ LET given == SelectSeq(polls[e], IsReadySrc)
               yielded == SelectSeq(polls[e], IsReadyOut)
           IN /\ Len(yielded) = Len(given)
              /\ \A n \in 1..Len(given) : yielded[n].out.item = Concat(given[n].src.item)

C4_Witness ==
    \E e \in Exchanges :
        /\ Len(polls[e]) = 3
        /\ polls[e][1].src = Ready(<<<<1>>, <<2>>>>)
        /\ polls[e][2].src = Ready(<<<<2, 1>>, <<1>>>>)
        /\ polls[e][3].src = End
        /\ polls[e][1].out.item = <<1, 2>>
        /\ polls[e][2].out.item = <<2, 1, 1>>

\* C5 as stated: a failing pull of the response body makes poll return the
\* failure as an I/O error, with no chunk for that pull, and no later pull
\* of the same stream yields a chunk.
C5_ErrorTerminates ==
    \A e \in Exchanges :
        \A k \in Polls(e) :
            polls[e][k].src.tag = "Err" =>
                /\ polls[e][k].out = Err([kind |-> "io", msg |-> polls[e][k].src.err.msg])
                /\ \A j \in Polls(e) : j > k => polls[e][j].out.tag # "Ready"

\* C5 amended: a failing pull of the response body makes poll return the
\* failure as an I/O error with the same message, with no chunk for that
\* pull; the stream keeps no terminated state, so a later pull yields a
\* chunk exactly when the response body returns a buffer on that pull.
C5_ErrorReclassified ==
    \A e \in Exchanges :
        \A k \in Polls(e) :
            polls[e][k].src.tag = "Err" =>
                /\ polls[e][k].out = Err([kind |-> "io", msg |-> polls[e][k].src.err.msg])
                /\ \A j \in Polls(e) :
                      j > k => (polls[e][j].out.tag = "Ready" <=> polls[e][j].src.tag = "Ready")

C5_Witness ==
    \E e \in Exchanges :
        /\ Len(polls[e]) = 3
        /\ polls[e][1].src.tag = "Ready"
        /\ polls[e][2].src = Err([kind |-> "body", msg |-> "reset"])
        /\ polls[e][2].out = Err([kind |-> "io", msg |-> "reset"])
        /\ polls[e][3].src.tag = "End"

(***************************************************************************)
(* Properties of request and response translation (SpecDispatch).          *)
(***************************************************************************)
Request(e) == din[e][1].request
Timeout(e) == din[e][1].timeout
SupportedMethods == {"GET", "HEAD", "POST", "PUT", "DELETE"}
VerbOf ==
    [m \in SupportedMethods |->
        CASE m = "GET" -> "Method::GET"
          [] m = "HEAD" -> "Method::HEAD"
          [] m = "POST" -> "Method::POST"
          [] m = "PUT" -> "Method::PUT"
          [] m = "DELETE" -> "Method::DELETE"]

\* C6: a dispatch called with a present timeout ends in the contract
\* violation (the fatal assertion), for every descriptor: no request is
\* built, the transport is not called and no future is returned.
C6_TimeoutIsFatal ==
    \A e \in Exchanges :
        (Dispatched(e) /\ Timeout(e).some) =>
            /\ phase[e] = "panicked"
            /\ panic[e] = "assert:timeout"
            /\ treq[e] = <<>>
            /\ calls[e] = 0
            /\ result[e] = <<>>

C6_Witness ==
    \E e \in Exchanges :
        /\ Dispatched(e)
        /\ Timeout(e) = [some |-> TRUE, secs |-> 0]
        /\ Request(e).method = "PATCH"
        /\ Request(e).headers # <<>>
        /\ panic[e] = "assert:timeout"

\* C7: a descriptor with one of GET, HEAD, POST, PUT, DELETE never fails on
\* its method, and the Transport Request built for it has exactly that
\* method; any other token, differently cased spellings included, fails as
\* an unsupported method: no Transport Request is built for it.
C7_MethodMapping ==
    \A e \in Exchanges :
        (Dispatched(e) /\ ~Timeout(e).some) =>
            IF Request(e).method \in SupportedMethods
            THEN /\ panic[e] # "unimplemented:method"
                 /\ treq[e] # <<>> => treq[e][1].method = VerbOf[Request(e).method]
                 /\ (Request(e).headers = <<>> /\ " " \notin
                        {Request(e).hostname[i] : i \in 1..Len(Request(e).hostname)})
                       => treq[e] # <<>>
            ELSE /\ phase[e] = "panicked"
                 /\ panic[e] = "unimplemented:method"
                 /\ treq[e] = <<>>
                 /\ calls[e] = 0

C7_Witness ==
    \E e \in Exchanges :
        /\ Dispatched(e) /\ ~Timeout(e).some
        /\ Request(e).method = "get"
        /\ Request(e).headers = <<>>
        /\ panic[e] = "unimplemented:method"

\* C8: the URI of the Transport Request is scheme + "://" + hostname +
\* canonical path, followed by "?" + canonical query string exactly when
\* the canonical query string is not empty.
C8_UriAssembly ==
    \A e \in Exchanges :
        treq[e] # <<>> =>
            LET r == Request(e)
                uri == treq[e][1].uri
                stem == r.scheme \o <<":", "/", "/">> \o r.hostname \o r.path
            IN /\ SubSeq(uri, 1, Len(stem)) = stem
               /\ r.query = <<>> => uri = stem
               /\ r.query # <<>> =>
                     /\ Len(uri) = Len(stem) + 1 + Len(r.query)
                     /\ uri[Len(stem) + 1] = "?"
                     /\ SubSeq(uri, Len(stem) + 2, Len(uri)) = r.query

C8_Witness ==
    \E e \in Exchanges :
        /\ treq[e] # <<>>
        /\ Request(e).query = <<"x", "=", "1">>
        /\ treq[e][1].uri =
              <<"h", "t", "t", "p", "s", ":", "/", "/",
                "e", "x", "a", "m", "p", "l", "e", ".", "c", "o", "m",
                "/", "a", "/", "b", "?", "x", "=", "1">>

\* The values a header map holds under a name, names compared without
\* regard to case (HeaderMap::get_all).
GetAll(m, name) ==
    Concat([i \in 1..Len(m) |->
              IF m[i].name = LowerName(name) THEN m[i].values ELSE <<>>])
\* The values a descriptor's multimap gives, in its order, to the names
\* equal to name without regard to case.
ValuesFor(hs, name) ==
    Concat([i \in 1..Len(hs) |->
              IF LowerName(hs[i].name) = LowerName(name) THEN hs[i].values ELSE <<>>])
TotalValues(m) == Len(Concat([i \in 1..Len(m) |-> m[i].values]))

\* C9 as stated: the header map of the Transport Request holds, for every
\* name of the descriptor's multimap, exactly that name's values in the
\* descriptor's order, and no other entry.
C9_HeadersPerName ==
    \A e \in Exchanges :
        treq[e] # <<>> =>
            LET hs == Request(e).headers
                m == treq[e][1].headers
            IN /\ \A i \in 1..Len(hs) : GetAll(m, hs[i].name) = hs[i].values
               /\ TotalValues(m) = TotalValues(hs)

\* C9 amended: header names are normalised to lower case, so the header map
\* holds, under every name of the descriptor's multimap, the values of all
\* the descriptor's names equal to it up to case, in the descriptor's
\* order (exactly that name's values when no other name differs from it
\* only in case), and no other entry: no value is lost or duplicated and
\* no default header is injected.
C9_HeadersPerLowerName ==
    \A e \in Exchanges :
        treq[e] # <<>> =>
            LET hs == Request(e).headers
                m == treq[e][1].headers
            IN /\ \A i \in 1..Len(hs) : GetAll(m, hs[i].name) = ValuesFor(hs, hs[i].name)
               /\ \A i \in 1..Len(hs) :
                     (\A j \in 1..Len(hs) :
                         j # i => LowerName(hs[j].name) # LowerName(hs[i].name))
                       => GetAll(m, hs[i].name) = hs[i].values
               /\ \A k \in 1..Len(m) :
                     /\ \E i \in 1..Len(hs) : LowerName(hs[i].name) = m[k].name
                     /\ \A l \in 1..Len(m) : l # k => m[l].name # m[k].name
               /\ TotalValues(m) = TotalValues(hs)

C9_Witness ==
    \E e \in Exchanges :
        /\ treq[e] # <<>>
        /\ Request(e).headers =
              <<[name |-> NameXFoo, values |-> <<ValueA>>],
                [name |-> NameXBar, values |-> <<ValueB>>],
                [name |-> NameXFooLower, values |-> <<ValueB>>]>>
        /\ treq[e][1].headers =
              <<[name |-> NameXFooLower, values |-> <<ValueA, ValueB>>],
                [name |-> NameXBar, values |-> <<ValueB>>]>>

\* The (name, value) pairs of a multimap, in its order.
Pairs(hs) ==
    Concat([i \in 1..Len(hs) |->
              [j \in 1..Len(hs[i].values) |-> <<hs[i].name, hs[i].values[j]>>]])
PairValues(ps, name) ==
    Concat([i \in 1..Len(ps) |-> IF ps[i][1] = name THEN <<ps[i][2]>> ELSE <<>>])
Echoed(e) ==
    /\ phase[e] = "resolved"
    /\ tres[e][1].headers = treq[e][1].headers

\* C10 as stated: when the response carries the request's header map, the
\* envelope holds the descriptor's (name, value) pairs, e.g. ("X-Foo", "a")
\* and ("X-Foo", "b"), in order; one pair per entry of the response's map.
C10_HeaderRoundTrip ==
    \A e \in Exchanges :
        Echoed(e) => result[e][1].headers = Pairs(Request(e).headers)

\* C10 amended: the envelope holds one (name, value) pair per entry of the
\* response's header map, repeated names included, each name's values in
\* their order; when the response carries the request's header map, these
\* are the descriptor's pairs with the names in lower case, ("x-foo", "a")
\* and ("x-foo", "b") for "X-Foo" with ["a", "b"]: the values under a name
\* are those of the descriptor's names equal to it up to case, and the
\* pairs are in the descriptor's order when no two names differ only in
\* case.
C10_HeaderRoundTripLowerCase ==
    \A e \in Exchanges :
        phase[e] = "resolved" =>
            LET hs == Request(e).headers
                m == tres[e][1].headers
                out == result[e][1].headers
            IN /\ Len(out) = TotalValues(m)
               /\ \A k \in 1..Len(m) : PairValues(out, m[k].name) = m[k].values
               /\ \A n \in 1..Len(out) : \E k \in 1..Len(m) : m[k].name = out[n][1]
               /\ Echoed(e) =>
                     /\ Len(out) = TotalValues(hs)
                     /\ \A i \in 1..Len(hs) :
                           PairValues(out, LowerName(hs[i].name)) = ValuesFor(hs, hs[i].name)
                     /\ (\A i, j \in 1..Len(hs) :
                            i # j => LowerName(hs[i].name) # LowerName(hs[j].name))
                          => out = [n \in 1..Len(out) |->
                                      <<LowerName(Pairs(hs)[n][1]), Pairs(hs)[n][2]>>]

C10_Witness ==
    \E e \in Exchanges :
        /\ Echoed(e)
        /\ Request(e).headers =
              <<[name |-> NameXFoo, values |-> <<ValueA, ValueB>>]>>
        /\ treq[e][1].headers =
              <<[name |-> NameXFooLower, values |-> <<ValueA, ValueB>>]>>
        /\ result[e][1].headers =
              <<<<NameXFooLower, ValueA>>, <<NameXFooLower, ValueB>>>>

(***************************************************************************)
(* Properties of the transport invocation (SpecDispatch).                  *)
(***************************************************************************)
Failed(e) == tres[e] # <<>> /\ tres[e][1].tag = "Err"

\* C11: a failure of the transport's invocation becomes one DispatchError
\* that carries the transport's message and is the result of the dispatch
\* future; it is never retried: the transport is invoked at most once in a
\* dispatch, also when the invocation fails, and a failed invocation never
\* resolves to a response envelope.
C11_FailureWrappedOnce ==
    \A e \in Exchanges :
        /\ calls[e] <= 1
        /\ Failed(e) =>
              /\ phase[e] = "failed"
              /\ calls[e] = 1
              /\ Len(result[e]) = 1
              /\ result[e][1].tag = "HttpDispatchError"
              /\ result[e][1].message = <<"DispatchError: ", tres[e][1].msg>>
              /\ panic[e] = "none"

C11_Witness ==
    \E e \in Exchanges :
        /\ Failed(e)
        /\ tres[e][1].msg = "timed out"
        /\ Request(e).headers # <<>>
        /\ result[e][1].message = <<"DispatchError: ", "timed out">>

(***************************************************************************)
(* Properties of the yielded chunks (SpecCopy).                            *)
(***************************************************************************)
IsReadyPoll(x) == x.out.tag = "Ready"
ReadyPolls(e) == SelectSeq(polls[e], IsReadyPoll)

\* The bytes the consumer reads in the k-th chunk it holds.
Content(e, k) ==
    IF held[e][k].shared THEN Collect(bufs[e][k]) ELSE held[e][k].bytes

\* C12: each buffer pulled from the response body is copied by
\* BodyStream::poll into a byte sequence of its own: whatever the response
\* body does to the buffer afterwards, and whatever is pulled later, every
\* chunk the consumer holds reads byte for byte as it did when yielded.
C12_ChunksIndependent ==
    \A e \in Exchanges :
        /\ Len(held[e]) = Len(ReadyPolls(e))
        /\ Len(bufs[e]) = Len(held[e])
        /\ \A k \in 1..Len(held[e]) : Content(e, k) = ReadyPolls(e)[k].out.item

C12_Witness ==
    \E e \in Exchanges :
        /\ Len(polls[e]) = 2
        /\ Len(held[e]) = 2
        /\ ReadyPolls(e)[1].src.item = <<<<2, 1>>, <<1>>>>
        /\ bufs[e][1] = <<<<1>>>>
        /\ Content(e, 1) = <<2, 1, 1>>

(***************************************************************************)
(* Properties of two concurrent exchanges (SpecPair).                      *)
(***************************************************************************)
\* All the adapter state of exchange e.
View(e) ==
    <<phase[e], din[e], panic[e], treq[e], body[e], calls[e], pulls[e], tres[e],
      result[e], polls[e], trailers[e], bodyPulls[e], held[e], bufs[e]>>

\* The payload of exchange e after its first k pulls, nothing but its own
\* pulls having touched it.
RECURSIVE InnerAlone(_, _)
InnerAlone(e, k) ==
    IF k = 0 THEN Payload(e)
    ELSE PollBufResult(InnerAlone(e, k - 1), pulls[e][k].src).inner

\* What exchange e has observed is what its own inputs give when it runs
\* alone: the request and the timeout, ...
DispatchAsAlone(e) ==
    LET d == DispatchResult(Request(e), Timeout(e))
    IN IF d.ok
       THEN /\ treq[e] = <<[method |-> d.val.method, uri |-> d.val.uri,
                            headers |-> d.val.headers]>>
            /\ body[e] = Payload(e)
            /\ phase[e] = "pending" /\ calls[e] = 1 /\ panic[e] = "none"
       ELSE /\ treq[e] = <<>>
            /\ body[e] = NoPayload
            /\ phase[e] = "panicked" /\ calls[e] = 0 /\ panic[e] = d.panic

\* ... the answers of its payload's stream, ...
PullsAsAlone(e) ==
    /\ body[e] = InnerAlone(e, Len(pulls[e]))
    /\ \A k \in Pulls(e) :
          pulls[e][k].out = PollBufResult(InnerAlone(e, k - 1), pulls[e][k].src).out

\* ... the transport's outcome, ...
ResultAsAlone(e) ==
    LET r == FutureResult(tres[e][1])
    IN /\ result[e] = <<r.val>>
       /\ phase[e] = (IF r.val.tag = "HttpResponse" THEN "resolved" ELSE "failed")
       /\ calls[e] = 1

\* ... and the answers of its response body.
PollsAsAlone(e) ==
    /\ \A k \in Polls(e) : polls[e][k].out = BodyStreamPoll(polls[e][k].src)
    /\ bodyPulls[e] = Len(polls[e])
    /\ phase[e] = "resolved"

\* C13: in any interleaving of the steps of two concurrent exchanges through
\* one HttpClient, a step of one exchange leaves all the state of the other
\* as it was, and what the step gives the exchange is what the exchange
\* observes when it runs alone.
C13_ExchangeIsolation ==
    [][/\ \E e \in Exchanges : \A f \in Exchanges \ {e} : View(f)' = View(f)
       /\ \A e \in Exchanges :
             /\ din[e]' # din[e] => DispatchAsAlone(e)'
             /\ pulls[e]' # pulls[e] => PullsAsAlone(e)'
             /\ tres[e]' # tres[e] => ResultAsAlone(e)'
             /\ polls[e]' # polls[e] => PollsAsAlone(e)']_vars

C13_Witness ==
    /\ Exchanges = {1, 2}
    /\ Dispatched(1) /\ Dispatched(2)
    /\ Payload(1).kind = "Buffer" /\ Payload(2).kind = "Stream"
    /\ Len(pulls[1]) = 2 /\ Len(pulls[2]) = 2
    /\ pulls[2][1].out = End /\ pulls[2][2].out.tag = "Ready"
    /\ phase[1] = "resolved" /\ phase[2] = "failed"
    /\ Len(polls[1]) = 2
    /\ polls[1][1].out.tag = "Err" /\ polls[1][2].out.tag = "Ready"
    /\ body[1] # body[2]

(***************************************************************************)
(* Further properties of the outbound body (SpecOutbound).                 *)
(***************************************************************************)
EmptyFromStart(e) ==
    \/ Payload(e).kind = "None"
    \/ Payload(e).kind = "Buffer" /\ Payload(e).buf = <<>>

\* C14: an Absent payload yields end-of-data on the first pull and on every
\* later pull, never a chunk, not-ready or an error; a Buffered payload
\* whose block is empty from the start does the same.
C14_AbsentYieldsEnd ==
    \A e \in Exchanges :
        (Dispatched(e) /\ treq[e] # <<>> /\ EmptyFromStart(e)) =>
            /\ \A k \in Pulls(e) : pulls[e][k].out = End
            /\ body[e] = Payload(e)

C14_Witness ==
    \E e \in Exchanges :
        /\ Dispatched(e)
        /\ Payload(e) = NoPayload
        /\ Len(pulls[e]) = 3
        /\ pulls[e][1].out = End /\ pulls[e][3].out = End

(***************************************************************************)
(* Properties of response header decoding (SpecDispatch).                  *)
(***************************************************************************)
Responded(e) == tres[e] # <<>> /\ tres[e][1].tag = "Ok"

\* The header values of the Transport Response of exchange e.
ResponseValues(e) ==
    UNION {{h.values[i] : i \in 1..Len(h.values)} :
             h \in {tres[e][1].headers[j] : j \in 1..Len(tres[e][1].headers)}}

IsContinuation(b) == b >= 128 /\ b <= 191

\* v is well-formed UTF-8 (RFC 3629).
RECURSIVE IsUtf8(_)
IsUtf8(v) ==
    IF v = <<>> THEN TRUE
    ELSE LET b == v[1]
             n == Len(v)
         IN CASE b < 128 -> IsUtf8(SubSeq(v, 2, n))
              [] b >= 194 /\ b <= 223 ->
                   /\ n >= 2 /\ IsContinuation(v[2])
                   /\ IsUtf8(SubSeq(v, 3, n))
              [] b >= 224 /\ b <= 239 ->
                   /\ n >= 3 /\ IsContinuation(v[2]) /\ IsContinuation(v[3])
                   /\ b = 224 => v[2] >= 160
                   /\ b = 237 => v[2] <= 159
                   /\ IsUtf8(SubSeq(v, 4, n))
              [] b >= 240 /\ b <= 244 ->
                   /\ n >= 4 /\ IsContinuation(v[2]) /\ IsContinuation(v[3])
                   /\ IsContinuation(v[4])
                   /\ b = 240 => v[2] >= 144
                   /\ b = 244 => v[2] <= 143
                   /\ IsUtf8(SubSeq(v, 5, n))
              [] OTHER -> FALSE

\* v is a tab and visible ASCII only.
IsVisibleAscii(v) == \A i \in 1..Len(v) : v[i] = 9 \/ (v[i] >= 32 /\ v[i] <= 126)

Delivered(e) ==
    /\ phase[e] = "resolved"
    /\ Len(result[e]) = 1
    /\ result[e][1].tag = "HttpResponse"
    /\ result[e][1].status = tres[e][1].status

Aborted(e) ==
    /\ phase[e] = "panicked"
    /\ panic[e] = "unwrap:header_to_str"
    /\ result[e] = <<>>

\* C15 as stated: a Transport Response with a header value that is not valid
\* UTF-8 fails translation and delivers no envelope, and one whose header
\* values are all valid UTF-8 always yields an envelope.
C15_Utf8Decoding ==
    \A e \in Exchanges :
        Responded(e) =>
            IF \E v \in ResponseValues(e) : ~IsUtf8(v)
            THEN Aborted(e)
            ELSE Delivered(e)

\* C15: a Transport Response with a header value that is not visible ASCII
\* (any byte above 126 or any control byte but the tab: every value that is
\* not valid UTF-8, and non-ASCII UTF-8 text as well) fails translation and
\* delivers no envelope, none with the header dropped or converted; one
\* whose header values are all visible ASCII always yields an envelope with
\* every value as it was.
C15_AsciiDecoding ==
    \A e \in Exchanges :
        Responded(e) =>
            /\ (\E v \in ResponseValues(e) : ~IsUtf8(v)) => Aborted(e)
            /\ IF \E v \in ResponseValues(e) : ~IsVisibleAscii(v)
               THEN Aborted(e)
               ELSE /\ Delivered(e)
                    /\ {p[2] : p \in {result[e][1].headers[i] :
                                        i \in 1..Len(result[e][1].headers)}}
                          = ResponseValues(e)

C15_Witness ==
    \E e \in Exchanges :
        /\ Responded(e)
        /\ ValueEAcute \in ResponseValues(e)
        /\ \A v \in ResponseValues(e) : IsUtf8(v)
        /\ Aborted(e)

(***************************************************************************)
(* Properties of the trailers (SpecOutbound).                              *)
(***************************************************************************)
Trailers(e) == 1..Len(trailers[e])

\* C16: the outbound body never has trailers: for every payload variant,
\* before, between and after the pulls of the data, exhausted or not,
\* poll_trailers answers at once "no trailers, done", never not-ready and
\* never an error, and leaves the payload as it found it.
C16_NoTrailers ==
    \A e \in Exchanges :
        \A k \in Trailers(e) :
            /\ trailers[e][k].out = End
            /\ trailers[e][k].after = trailers[e][k].before

C16_Witness ==
    \E e \in Exchanges :
        /\ Dispatched(e)
        /\ Payload(e) = [kind |-> "Buffer", buf |-> <<1, 2>>]
        /\ Len(trailers[e]) = 2
        /\ trailers[e][1].before.buf = <<1, 2>>
        /\ trailers[e][1].out = End
        /\ trailers[e][2].before.buf = <<>>
        /\ Len(pulls[e]) = 2
        /\ pulls[e][1].out.tag = "Ready"

\* C19: for a Streaming payload, an error of the source on a pull comes out
\* of poll_buf as an I/O error on that same pull, with the source's message:
\* the pull yields no chunk, no end-of-data and no not-ready.
C19_StreamErrorPropagates ==
    \A e \in Exchanges :
        (Dispatched(e) /\ Payload(e).kind = "Stream") =>
            \A k \in Pulls(e) :
                pulls[e][k].src.tag = "Err" <=>
                    /\ pulls[e][k].out.tag = "Err"
                    /\ pulls[e][k].out.err.kind = "io"
                    /\ pulls[e][k].out.err = pulls[e][k].src.err
                    /\ pulls[e][k].out.item = <<>>

C19_Witness ==
    \E e \in Exchanges :
        /\ Dispatched(e) /\ Payload(e).kind = "Stream"
        /\ Len(pulls[e]) = 3
        /\ pulls[e][1].out.tag = "Ready"
        /\ pulls[e][2].src.tag = "Err"
        /\ pulls[e][2].out.tag = "Err"
        /\ pulls[e][2].out.err.msg = "broken pipe"
        /\ pulls[e][3].out = End

(***************************************************************************)
(* Properties of both bodies of one exchange (SpecExchange).               *)
(***************************************************************************)
\* C17: the adapters never suspend of their own: a pull of the outbound body
\* returns not-ready exactly when the payload is Streaming and its source
\* answered not-ready on that pull, never for Absent or Buffered; a poll of
\* the inbound body stream returns not-ready exactly when the response body
\* answered not-ready on that poll.
C17_NoOwnSuspension ==
    \A e \in Exchanges :
        /\ \A k \in Pulls(e) :
              pulls[e][k].out = NotReady <=>
                  (Payload(e).kind = "Stream" /\ pulls[e][k].src = NotReady)
        /\ \A k \in Polls(e) :
              polls[e][k].out = NotReady <=> polls[e][k].src = NotReady

C17_Witness ==
    \E e \in Exchanges :
        /\ Dispatched(e) /\ Payload(e).kind = "Stream"
        /\ Len(pulls[e]) = 2
        /\ pulls[e][1].out = NotReady /\ pulls[e][2].out.tag = "Ready"
        /\ Len(polls[e]) = 2
        /\ polls[e][1].out = NotReady /\ polls[e][2].out.tag = "Ready"

(***************************************************************************)
(* Further properties of the inbound body (SpecInbound).                   *)
(***************************************************************************)
\* C18: the response body is driven lazily, poll for poll: resolving the
\* dispatch future into an envelope pulls nothing from the response body,
\* and in every state the pulls made on the response body are as many as
\* the polls the consumer made on the envelope's body stream.
C18_PollForPoll ==
    \A e \in Exchanges :
        /\ bodyPulls[e] = Len(polls[e])
        /\ phase[e] # "resolved" => bodyPulls[e] = 0
        /\ (phase[e] = "resolved" /\ polls[e] = <<>>) => bodyPulls[e] = 0

C18_Witness ==
    \E e \in Exchanges :
        /\ phase[e] = "resolved"
        /\ tres[e][1].status = 404
        /\ Len(polls[e]) = 3
        /\ bodyPulls[e] = 3
        /\ polls[e][1].out = NotReady
        /\ polls[e][2].out.tag = "Ready"
        /\ polls[e][3].out = End

(***************************************************************************)
(* Further properties of dispatch (SpecDispatch).                          *)
(***************************************************************************)
\* The header names and values of the descriptor of exchange e.
RequestNames(e) == {Request(e).headers[i].name : i \in 1..Len(Request(e).headers)}
RequestValues(e) ==
    UNION {{Request(e).headers[i].values[j] : j \in 1..Len(Request(e).headers[i].values)} :
             i \in 1..Len(Request(e).headers)}

\* One of the failures that stop a dispatch before the transport is invoked.
HitsTimeout(e) == Timeout(e).some
HitsMethod(e) == Request(e).method \notin SupportedMethods
HitsHeaderName(e) == \E n \in RequestNames(e) : ~ParseHeaderName(n).ok
HitsHeaderValue(e) ==
    \E i \in 1..Len(Request(e).headers) :
        /\ ParseHeaderName(Request(e).headers[i].name).ok
        /\ \E j \in 1..Len(Request(e).headers[i].values) :
              ~HeaderValueFromBytes(Request(e).headers[i].values[j]).ok
HitsUri(e) == ~ParseUri(FormatUri(Request(e))).ok

PassesTranslation(e) ==
    ~(HitsTimeout(e) \/ HitsMethod(e) \/ HitsHeaderName(e) \/ HitsHeaderValue(e)
        \/ HitsUri(e))

\* C20: the transport is invoked only after the timeout check, the method
\* mapping, the header translation and the URI assembly have all succeeded:
\* a dispatch that hits the timeout violation, an unsupported method, an
\* unparsable header name or an unparsable header value never invokes it,
\* and a dispatch that passes translation has invoked it exactly once when
\* it returns its future.
C20_TranslateBeforeInvoke ==
    \A e \in Exchanges :
        Dispatched(e) =>
            /\ (HitsTimeout(e) \/ HitsMethod(e) \/ HitsHeaderName(e) \/ HitsHeaderValue(e)) =>
                  /\ calls[e] = 0
                  /\ treq[e] = <<>>
                  /\ phase[e] = "panicked"
                  /\ panic[e] \in {"assert:timeout", "unimplemented:method",
                                   "unimplemented:header_name",
                                   "unimplemented:header_value"}
            /\ PassesTranslation(e) =>
                  /\ calls[e] = 1
                  /\ treq[e] # <<>>
                  /\ panic[e] \in {"none", "unwrap:header_to_str"}
            /\ calls[e] = 1 <=> PassesTranslation(e)
            /\ calls[e] <= 1

C20_Witness ==
    \E e \in Exchanges :
        /\ Dispatched(e)
        /\ ~HitsTimeout(e) /\ ~HitsMethod(e) /\ ~HitsHeaderName(e)
        /\ HitsHeaderValue(e)
        /\ Len(Request(e).headers) = 2
        /\ panic[e] = "unimplemented:header_value"
        /\ calls[e] = 0
====
